---- MODULE Spec2Model ----
(***************************************************************************)
(* spot-mapper: the location list of the App component, its URL transport  *)
(* codec (utils/base64) and the map-click entry path of MapComponent.      *)
(*                                                                         *)
(* Representation.                                                         *)
(*   - Text is a sequence of UTF-16 code units (34 is the double quote).   *)
(*   - A number is a fixed-point integer counting 1/Scale of a unit, so    *)
(*     36.3932 is 363932.  Every number the model handles is a multiple of *)
(*     1/Scale.                                                            *)
(*   - A JSON value is a record [t, n, s, k, a]: t is the kind, n the      *)
(*     number (or 0/1 for a boolean), s the text of a string, k the keys   *)
(*     of an object and a the elements of an array or the member values of *)
(*     an object.                                                          *)
(*   - An operation that may throw returns [ok, v]; ok = FALSE is the      *)
(*     thrown Error.                                                       *)
(*   - An optional value (undefined / null or a value) is <<>> or <<x>>.   *)
(***************************************************************************)
EXTENDS Integers, Sequences, FiniteSets, TLC

\* At most this many locations are added in one run.
MaxAdds == 1

\* The texts given to the codec have at most this many code units.
MaxTextLen == 2

\* At most this many locations are deleted in one run.
MaxDeletes == 2

\* At most this many focus requests are made in one run.
MaxFocus == 3

\* The lists given to the viewport computation have at most this many points.
MaxPoints == 2

\* At most this many clipboard writes are awaited at once.
MaxCopying == 2

\* Four fractional decimal digits, as in the coordinates of the seed list.
Scale == 10 * 10 * 10 * 10

(***************************************************************************)
(* JSON values                                                             *)
(***************************************************************************)
JNull == [t |-> "null", n |-> 0, s |-> <<>>, k |-> <<>>, a |-> <<>>]

JBool(b) == [t |-> "bool", n |-> IF b THEN 1 ELSE 0, s |-> <<>>, k |-> <<>>, a |-> <<>>]

JNum(x) == [t |-> "num", n |-> x, s |-> <<>>, k |-> <<>>, a |-> <<>>]

JStr(str) == [t |-> "str", n |-> 0, s |-> str, k |-> <<>>, a |-> <<>>]

JArr(items) == [t |-> "arr", n |-> 0, s |-> <<>>, k |-> <<>>, a |-> items]

JObj(keys, vals) == [t |-> "obj", n |-> 0, s |-> <<>>, k |-> keys, a |-> vals]

\* The outcome of an operation that threw.
Thrown == [ok |-> FALSE, v |-> <<>>]

Returned(x) == [ok |-> TRUE, v |-> x]

(***************************************************************************)
(* JSON.stringify                                                          *)
(***************************************************************************)
RECURSIVE Digits(_)
Digits(m) == IF m < 10 THEN <<48 + m>> ELSE Digits(m \div 10) \o <<48 + (m % 10)>>

RECURSIVE StripZeros(_)
StripZeros(ds) ==
  IF ds # <<>> /\ ds[Len(ds)] = 48 THEN StripZeros(SubSeq(ds, 1, Len(ds) - 1)) ELSE ds

\* Number::toString for a multiple of 1/Scale: shortest decimal form.
FormatNumber(x) ==
  LET m  == IF x < 0 THEN -x ELSE x
      ip == m \div Scale
      fp == m % Scale
      fd == StripZeros(<<48 + (fp \div 1000), 48 + ((fp \div 100) % 10),
                         48 + ((fp \div 10) % 10), 48 + (fp % 10)>>)
  IN  (IF x < 0 THEN <<45>> ELSE <<>>) \o Digits(ip)
        \o (IF fp = 0 THEN <<>> ELSE <<46>> \o fd)

HexDigit(d) == IF d < 10 THEN 48 + d ELSE 87 + d

\* QuoteJSONString's treatment of one code unit.
EscapeUnit(c) ==
  CASE c = 34 -> <<92, 34>>
    [] c = 92 -> <<92, 92>>
    [] c = 8  -> <<92, 98>>
    [] c = 9  -> <<92, 116>>
    [] c = 10 -> <<92, 110>>
    [] c = 12 -> <<92, 102>>
    [] c = 13 -> <<92, 114>>
    [] c < 32 /\ c \notin {8, 9, 10, 12, 13} ->
         <<92, 117, 48, 48, HexDigit(c \div 16), HexDigit(c % 16)>>
    [] OTHER -> <<c>>

RECURSIVE EscapeRange(_, _, _)
\* The escaped form of str[lo..hi], by halves.
EscapeRange(str, lo, hi) ==
  IF lo > hi THEN <<>>
  ELSE IF lo = hi THEN EscapeUnit(str[lo])
  ELSE LET mid == (lo + hi) \div 2 IN
       EscapeRange(str, lo, mid) \o EscapeRange(str, mid + 1, hi)

QuoteString(str) == <<34>> \o EscapeRange(str, 1, Len(str)) \o <<34>>

RECURSIVE Stringify(_), StringifyItems(_, _), StringifyMembers(_, _, _)
Stringify(v) ==
  CASE v.t = "null" -> <<110, 117, 108, 108>>
    [] v.t = "bool" -> IF v.n = 1 THEN <<116, 114, 117, 101>>
                                  ELSE <<102, 97, 108, 115, 101>>
    [] v.t = "num"  -> FormatNumber(v.n)
    [] v.t = "str"  -> QuoteString(v.s)
    [] v.t = "arr"  -> <<91>> \o StringifyItems(v.a, 1) \o <<93>>
    [] v.t = "obj"  -> <<123>> \o StringifyMembers(v.k, v.a, 1) \o <<125>>

StringifyItems(items, i) ==
  IF i > Len(items) THEN <<>>
  ELSE (IF i > 1 THEN <<44>> ELSE <<>>) \o Stringify(items[i])
         \o StringifyItems(items, i + 1)

StringifyMembers(keys, vals, i) ==
  IF i > Len(keys) THEN <<>>
  ELSE (IF i > 1 THEN <<44>> ELSE <<>>) \o QuoteString(keys[i]) \o <<58>>
         \o Stringify(vals[i]) \o StringifyMembers(keys, vals, i + 1)

(***************************************************************************)
(* JSON.parse                                                              *)
(* A parse step returns [ok, v, i]: the value and the index after it.      *)
(* Numbers are read in the grammar -?int(.frac)? with at most four         *)
(* fraction digits; an exponent or a longer fraction is outside the        *)
(* numbers of the model and no enumerated text contains one.               *)
(***************************************************************************)
NoParse == [ok |-> FALSE, v |-> JNull, i |-> 0]

Parsed(val, next) == [ok |-> TRUE, v |-> val, i |-> next]

IsDigit(c) == c >= 48 /\ c <= 57

IsHex(c) == IsDigit(c) \/ (c >= 97 /\ c <= 102) \/ (c >= 65 /\ c <= 70)

HexValue(c) == IF IsDigit(c) THEN c - 48 ELSE IF c >= 97 THEN c - 87 ELSE c - 55

RECURSIVE SkipWs(_, _)
SkipWs(str, i) ==
  IF i <= Len(str) /\ str[i] \in {32, 9, 10, 13} THEN SkipWs(str, i + 1) ELSE i

RECURSIVE ScanDigits(_, _)
ScanDigits(str, i) ==
  IF i <= Len(str) /\ IsDigit(str[i]) THEN ScanDigits(str, i + 1) ELSE i

RECURSIVE DigitsValue(_, _, _)
\* The value of the decimal digits str[i..j-1].
DigitsValue(str, i, j) ==
  IF j <= i THEN 0 ELSE DigitsValue(str, i, j - 1) * 10 + (str[j - 1] - 48)

RECURSIVE Pow10(_)
Pow10(e) == IF e <= 0 THEN 1 ELSE 10 * Pow10(e - 1)

MatchAt(str, i, lit) ==
  /\ i + Len(lit) - 1 <= Len(str)
  /\ \A d \in 1..Len(lit) : str[i + d - 1] = lit[d]

ParseNumber(str, i) ==
  LET neg == str[i] = 45
      p   == IF neg THEN i + 1 ELSE i
      q   == IF p <= Len(str) /\ str[p] = 48 THEN p + 1 ELSE ScanDigits(str, p)
      dot == q <= Len(str) /\ str[q] = 46
      r   == IF dot THEN ScanDigits(str, q + 1) ELSE q
      nf  == IF dot THEN r - (q + 1) ELSE 0
      mag == DigitsValue(str, p, q) * Scale
               + (IF dot THEN DigitsValue(str, q + 1, r) * Pow10(4 - nf) ELSE 0)
  IN  IF q = p \/ (dot /\ nf = 0) \/ nf > 4
         \/ (r <= Len(str) /\ str[r] \in {101, 69})
      THEN NoParse
      ELSE Parsed(JNum(IF neg THEN -mag ELSE mag), r)

\* The number of backslashes (92) that end right before position j, counted
\* back no further than position i.
BackslashRun(str, i, j) ==
  Cardinality({k \in 1..(j - i) : \A d \in 1..k : str[j - d] = 92})

\* A backslash that opens an escape sequence inside a string starting at i.
EscapeStart(str, i, p) == str[p] = 92 /\ BackslashRun(str, i, p) % 2 = 0

\* The characters after the opening quote (at i - 1), up to the closing one:
\* the closing quote is the first quote that no backslash escapes.
ParseString(str, i, acc) ==
  LET closers == {j \in i..Len(str) : str[j] = 34 /\ BackslashRun(str, i, j) % 2 = 0}
      close   == CHOOSE j \in closers : \A j2 \in closers : j <= j2
      start(p) == p >= i /\ EscapeStart(str, i, p)
      inHex(p) == \E d \in 2..5 : start(p - d) /\ str[p - d + 1] = 117
      okAt(p) ==
        IF start(p) THEN
          \/ str[p + 1] \in {34, 92, 47, 98, 102, 110, 114, 116}
          \/ /\ str[p + 1] = 117
             /\ p + 5 < close
             /\ \A d \in 2..5 : IsHex(str[p + d])
        ELSE str[p] >= 32
      unit(p) ==
        IF start(p) THEN
          LET e == str[p + 1] IN
          CASE e = 98  -> 8
            [] e = 102 -> 12
            [] e = 110 -> 10
            [] e = 114 -> 13
            [] e = 116 -> 9
            [] e = 117 -> HexValue(str[p + 2]) * 4096 + HexValue(str[p + 3]) * 256
                            + HexValue(str[p + 4]) * 16 + HexValue(str[p + 5])
            [] OTHER   -> e
        ELSE IF start(p - 1) \/ inHex(p) THEN -1
        ELSE str[p]
      kept(c) == c >= 0
  IN  IF closers = {} THEN NoParse
      ELSE IF \E p \in i..(close - 1) : ~okAt(p) THEN NoParse
      ELSE Parsed(JStr(acc \o SelectSeq([d \in 1..(close - i) |-> unit(i + d - 1)], kept)),
                  close + 1)

RECURSIVE ParseValue(_, _), ParseElements(_, _, _), ParseMembers(_, _, _, _)
ParseValue(str, i0) ==
  LET i == SkipWs(str, i0) IN
  IF i > Len(str) THEN NoParse
  ELSE LET c == str[i] IN
       CASE c = 34 -> ParseString(str, i + 1, <<>>)
         [] c = 45 \/ IsDigit(c) -> ParseNumber(str, i)
         [] c = 91 ->
              LET j == SkipWs(str, i + 1) IN
              IF j <= Len(str) /\ str[j] = 93 THEN Parsed(JArr(<<>>), j + 1)
              ELSE ParseElements(str, j, <<>>)
         [] c = 123 ->
              LET j == SkipWs(str, i + 1) IN
              IF j <= Len(str) /\ str[j] = 125 THEN Parsed(JObj(<<>>, <<>>), j + 1)
              ELSE ParseMembers(str, j, <<>>, <<>>)
         [] c = 116 -> IF MatchAt(str, i, <<116, 114, 117, 101>>)
                       THEN Parsed(JBool(TRUE), i + 4) ELSE NoParse
         [] c = 102 -> IF MatchAt(str, i, <<102, 97, 108, 115, 101>>)
                       THEN Parsed(JBool(FALSE), i + 5) ELSE NoParse
         [] c = 110 -> IF MatchAt(str, i, <<110, 117, 108, 108>>)
                       THEN Parsed(JNull, i + 4) ELSE NoParse
         [] OTHER -> NoParse

ParseElements(str, i, acc) ==
  LET e == ParseValue(str, i) IN
  IF ~e.ok THEN NoParse
  ELSE LET j == SkipWs(str, e.i) IN
       IF j > Len(str) THEN NoParse
       ELSE IF str[j] = 93 THEN Parsed(JArr(Append(acc, e.v)), j + 1)
       ELSE IF str[j] = 44 THEN ParseElements(str, j + 1, Append(acc, e.v))
       ELSE NoParse

ParseMembers(str, i0, keys, vals) ==
  LET i == SkipWs(str, i0) IN
  IF i > Len(str) \/ str[i] # 34 THEN NoParse
  ELSE LET key == ParseString(str, i + 1, <<>>) IN
       IF ~key.ok THEN NoParse
       ELSE LET c == SkipWs(str, key.i) IN
            IF c > Len(str) \/ str[c] # 58 THEN NoParse
            ELSE LET e == ParseValue(str, c + 1) IN
                 IF ~e.ok THEN NoParse
                 ELSE LET j == SkipWs(str, e.i) IN
                      IF j > Len(str) THEN NoParse
                      ELSE IF str[j] = 125
                           THEN Parsed(JObj(Append(keys, key.v.s), Append(vals, e.v)), j + 1)
                      ELSE IF str[j] = 44
                           THEN ParseMembers(str, j + 1, Append(keys, key.v.s),
                                             Append(vals, e.v))
                      ELSE NoParse

\* JSON.parse(text): one value, then nothing but white space.
JSONParse(str) ==
  LET r == ParseValue(str, 1) IN
  IF r.ok /\ SkipWs(str, r.i) > Len(str) THEN Returned(r.v) ELSE Thrown

(***************************************************************************)
(* btoa / atob (the browser branch of utils/base64: the application runs   *)
(* in a browser, where both are defined)                                   *)
(***************************************************************************)
\* The base64 alphabet: A-Z, a-z, 0-9, '+' (43), '/' (47).
B64Char(x) ==
  IF x < 26 THEN 65 + x
  ELSE IF x < 52 THEN 97 + (x - 26)
  ELSE IF x < 62 THEN 48 + (x - 52)
  ELSE IF x = 62 THEN 43 ELSE 47

B64Index(c) ==
  IF c >= 65 /\ c <= 90 THEN c - 65
  ELSE IF c >= 97 /\ c <= 122 THEN c - 71
  ELSE IF c >= 48 /\ c <= 57 THEN c + 4
  ELSE IF c = 43 THEN 62
  ELSE IF c = 47 THEN 63 ELSE -1

\* Three bytes make four characters; a tail of one or two bytes makes two or
\* three characters and '=' (61) pads the group.  Character k of the output:
B64Encode(bytes) ==
  LET n == Len(bytes)
      byte(j) == IF j <= n THEN bytes[j] ELSE 0
      char(k) ==
        LET b == 3 * ((k - 1) \div 4) + 1
            q == (k - 1) % 4
        IN  CASE q = 0 -> B64Char(byte(b) \div 4)
              [] q = 1 -> B64Char((byte(b) % 4) * 16 + byte(b + 1) \div 16)
              [] q = 2 -> IF b + 1 > n THEN 61
                          ELSE B64Char((byte(b + 1) % 16) * 4 + byte(b + 2) \div 64)
              [] q = 3 -> IF b + 2 > n THEN 61 ELSE B64Char(byte(b + 2) % 64)
  IN  [k \in 1..(4 * ((n + 2) \div 3)) |-> char(k)]

\* btoa throws InvalidCharacterError on a code unit above 255.
btoa(str) ==
  IF \E i \in 1..Len(str) : str[i] > 255 THEN Thrown
  ELSE Returned(B64Encode(str))

\* Four characters make three bytes; a tail of two or three characters makes
\* one or two bytes and its spare bits are dropped.  Byte k of the output:
B64Decode(chars) ==
  LET n == Len(chars)
      x(j) == B64Index(chars[j])
      byte(k) ==
        LET c == 4 * ((k - 1) \div 3) + 1
            q == (k - 1) % 3
        IN  CASE q = 0 -> x(c) * 4 + x(c + 1) \div 16
              [] q = 1 -> (x(c + 1) % 16) * 16 + x(c + 2) \div 4
              [] q = 2 -> (x(c + 2) % 4) * 64 + x(c + 3)
  IN  [k \in 1..(3 * (n \div 4) + (IF n % 4 = 0 THEN 0 ELSE (n % 4) - 1)) |-> byte(k)]

RemoveWs(str) ==
  LET kept(c) == c \notin {9, 10, 12, 13, 32} IN SelectSeq(str, kept)

\* atob: the forgiving-base64 decode of the HTML standard.
atob(str) ==
  LET a == RemoveWs(str)
      b == IF Len(a) % 4 = 0 /\ Len(a) >= 1 /\ a[Len(a)] = 61
           THEN IF Len(a) >= 2 /\ a[Len(a) - 1] = 61
                THEN SubSeq(a, 1, Len(a) - 2) ELSE SubSeq(a, 1, Len(a) - 1)
           ELSE a
  IN  IF Len(b) % 4 = 1 \/ \E i \in 1..Len(b) : B64Index(b[i]) < 0 THEN Thrown
      ELSE Returned(B64Decode(b))

(***************************************************************************)
(* utils/base64                                                            *)
(***************************************************************************)
encodeToBase64(data) ==
  LET jsonString == Stringify(data) IN btoa(jsonString)

\* A decoder that hands back the text when it is no JSON.
decodeFromBase64_RawText(base64String) ==
  LET jsonString == atob(base64String) IN
  IF ~jsonString.ok THEN Thrown
  ELSE IF JSONParse(jsonString.v).ok THEN JSONParse(jsonString.v)
  ELSE Returned(JStr(jsonString.v))

decodeFromBase64(base64String) ==
  LET jsonString == atob(base64String) IN
  IF ~jsonString.ok THEN Thrown ELSE JSONParse(jsonString.v)

\* A safe encoder that answers the empty string when encoding fails.
safeEncodeToBase64_EmptyOnFailure(data) ==
  LET encoded == encodeToBase64(data) IN
  IF encoded.ok THEN JStr(encoded.v) ELSE JStr(<<>>)

\* The safe variants return a JavaScript value: the token as a string or the
\* decoded value, and null from the catch block.  null is also the value that
\* JSON.parse gives for the text null.
safeEncodeToBase64(data) ==
  LET encoded == encodeToBase64(data) IN
  IF encoded.ok THEN JStr(encoded.v) ELSE JNull

safeDecodeFromBase64(base64String) ==
  LET decoded == decodeFromBase64(base64String) IN
  IF decoded.ok THEN decoded.v ELSE JNull

\* /^[A-Za-z0-9+/]*={0,2}$/
\* The number of '=' that end the string.
TrailingEquals(str) ==
  Cardinality({k \in 1..Len(str) : \A d \in 0..(k - 1) : str[Len(str) - d] = 61})

base64Pattern(str) ==
  LET e == TrailingEquals(str) IN
  /\ e <= 2
  /\ \A i \in 1..(Len(str) - e) : B64Index(str[i]) >= 0

\* A validator that does not compare the re-encoded token.
isValidBase64_NoReencode(str) ==
  IF ~base64Pattern(str) THEN FALSE
  ELSE decodeFromBase64(str).ok

isValidBase64(str) ==
  IF ~base64Pattern(str) THEN FALSE
  ELSE LET decoded == decodeFromBase64(str) IN
       IF ~decoded.ok THEN FALSE
       ELSE LET reencoded == encodeToBase64(decoded.v) IN
            IF ~reencoded.ok THEN FALSE ELSE reencoded.v = str

\* str.replace(/from/g, to) for a one-character pattern and replacement.
ReplaceAll(str, from, to) ==
  [i \in 1..Len(str) |-> IF str[i] = from THEN to ELSE str[i]]

\* str.replace(/c/g, '')
RemoveAll(str, c) ==
  LET kept(x) == x # c IN SelectSeq(str, kept)

\* An encoder that forgets to replace '/'.
encodeToUrlSafeBase64_KeepsSlash(data) ==
  LET base64 == encodeToBase64(data) IN
  IF ~base64.ok THEN Thrown
  ELSE Returned(RemoveAll(ReplaceAll(base64.v, 43, 45), 61))

encodeToUrlSafeBase64(data) ==
  LET base64 == encodeToBase64(data) IN
  IF ~base64.ok THEN Thrown
  ELSE Returned(RemoveAll(ReplaceAll(ReplaceAll(base64.v, 43, 45), 47, 95), 61))

\* '='.repeat(n)
Repeat61(n) == [i \in 1..n |-> 61]

\* A restoration that pads also when nothing is missing.
RestoredBase64_AlwaysPads(urlSafeBase64) ==
  LET restored == ReplaceAll(ReplaceAll(urlSafeBase64, 45, 43), 95, 47)
      padding  == 4 - (Len(restored) % 4)
  IN  restored \o Repeat61(padding)

\* The string handed to decodeFromBase64: '-' and '_' turned back, padding added.
RestoredBase64(urlSafeBase64) ==
  LET restored == ReplaceAll(ReplaceAll(urlSafeBase64, 45, 43), 95, 47)
      padding  == 4 - (Len(restored) % 4)
  IN  IF padding # 4 THEN restored \o Repeat61(padding) ELSE restored

decodeFromUrlSafeBase64(urlSafeBase64) ==
  decodeFromBase64(RestoredBase64(urlSafeBase64))

(***************************************************************************)
(* The App component                                                       *)
(***************************************************************************)
VARIABLES
  phase,                   \* "mounting" until the mount effects have run, then "ready"
  crashed,                 \* a render threw and React unmounted the tree
  pageQuery,               \* the query of window.location: a sequence of [k, v]
  mapLocations,            \* useState<MapLocation[]>
  newLocation,             \* useState({lat, lng, name, description}): the form's text
  showAddLocationForm,     \* useState(false)
  locationsShareUrl,       \* useState(''): <<>> is '', <<q>> a URL with query q
  isMapAddingMode,         \* useState(false)
  targetLocation,          \* useState(null): <<>> or <<[lat, lng]>>
  openPopupLocationIndex,  \* useState(null): <<>> or <<index>>, counted from 0
  isMobile,                \* useState(window.innerWidth <= 768)
  pendingLocation,         \* MapComponent's useState(null): <<>> or <<[lat, lng]>>
  timers,                  \* the pending setTimeout callbacks, ids in firing order
  nextTimerId,             \* the id the next setTimeout returns
  alertText,               \* what the last handler showed with alert(), or "none"
  lastEvent,               \* the handler that ran last and how it ended
  adds,                    \* how many locations have been added so far
  deletes,                 \* how many locations have been deleted so far
  mapBoundsMemo,           \* useMemo: the value of the last computation of mapBounds
  clipboard,               \* the text on the clipboard: <<>> or <<q>>, a URL with query q
  copying,                 \* the clipboard writes not yet settled, oldest first
  codec                    \* a use of utils/base64 outside the App: see CodecIdle

vars == <<phase, crashed, pageQuery, mapLocations, newLocation, showAddLocationForm,
          locationsShareUrl, isMapAddingMode, targetLocation, openPopupLocationIndex,
          isMobile, pendingLocation, timers, nextTimerId, alertText, lastEvent,
          adds, deletes, mapBoundsMemo, clipboard, copying, codec>>

appVars == <<phase, crashed, pageQuery, mapLocations, newLocation, showAddLocationForm,
             locationsShareUrl, isMapAddingMode, targetLocation, openPopupLocationIndex,
             isMobile, pendingLocation, timers, nextTimerId, alertText, lastEvent, adds,
             deletes, mapBoundsMemo, clipboard, copying>>

\* Text constants.
T_lat == <<108, 97, 116>>

T_lng == <<108, 110, 103>>

T_name == <<110, 97, 109, 101>>

T_description == <<100, 101, 115, 99, 114, 105, 112, 116, 105, 111, 110>>

\* The list App is constructed with.
DefaultLocations == <<
    \* Santorini, Greece: Beautiful Greek island with stunning sunsets
    [lat |-> 363932, lng |-> 254615,
     name |-> <<83, 97, 110, 116, 111, 114, 105, 110, 105, 44, 32, 71, 114, 101, 101, 99,
              101>>,
     description |-> <<<<66, 101, 97, 117, 116, 105, 102, 117, 108, 32, 71, 114, 101,
                       101, 107, 32, 105, 115, 108, 97, 110, 100, 32, 119, 105, 116,
                       104, 32, 115, 116, 117, 110, 110, 105, 110, 103, 32, 115, 117,
                       110, 115, 101, 116, 115>>>>],
    \* Swiss Alps, Switzerland: Breathtaking alpine landscapes and hiking trails
    [lat |-> 465197, lng |-> 66323,
     name |-> <<83, 119, 105, 115, 115, 32, 65, 108, 112, 115, 44, 32, 83, 119, 105, 116,
              122, 101, 114, 108, 97, 110, 100>>,
     description |-> <<<<66, 114, 101, 97, 116, 104, 116, 97, 107, 105, 110, 103, 32, 97,
                       108, 112, 105, 110, 101, 32, 108, 97, 110, 100, 115, 99, 97,
                       112, 101, 115, 32, 97, 110, 100, 32, 104, 105, 107, 105, 110,
                       103, 32, 116, 114, 97, 105, 108, 115>>>>],
    \* Paris, France: The City of Light with iconic landmarks
    [lat |-> 488566, lng |-> 23522,
     name |-> <<80, 97, 114, 105, 115, 44, 32, 70, 114, 97, 110, 99, 101>>,
     description |-> <<<<84, 104, 101, 32, 67, 105, 116, 121, 32, 111, 102, 32, 76, 105,
                       103, 104, 116, 32, 119, 105, 116, 104, 32, 105, 99, 111, 110,
                       105, 99, 32, 108, 97, 110, 100, 109, 97, 114, 107, 115>>>>],
    \* Tokyo, Japan: Modern metropolis with rich culture
    [lat |-> 356762, lng |-> 1396503,
     name |-> <<84, 111, 107, 121, 111, 44, 32, 74, 97, 112, 97, 110>>,
     description |-> <<<<77, 111, 100, 101, 114, 110, 32, 109, 101, 116, 114, 111, 112,
                       111, 108, 105, 115, 32, 119, 105, 116, 104, 32, 114, 105, 99,
                       104, 32, 99, 117, 108, 116, 117, 114, 101>>>>],
    \* Sydney, Australia: Harbor city with beautiful beaches
    [lat |-> -338688, lng |-> 1512093,
     name |-> <<83, 121, 100, 110, 101, 121, 44, 32, 65, 117, 115, 116, 114, 97, 108,
              105, 97>>,
     description |-> <<<<72, 97, 114, 98, 111, 114, 32, 99, 105, 116, 121, 32, 119, 105,
                       116, 104, 32, 98, 101, 97, 117, 116, 105, 102, 117, 108, 32, 98,
                       101, 97, 99, 104, 101, 115>>>>]
  >>

EmptyForm == [lat |-> <<>>, lng |-> <<>>, name |-> <<>>, description |-> <<>>]

(***************************************************************************)
(* A MapLocation as JSON.stringify writes it and as JSON.parse returns it  *)
(***************************************************************************)
\* A property whose value is undefined is left out.
LocationToJson(loc) ==
  JObj(<<T_lat, T_lng, T_name>> \o (IF loc.description = <<>> THEN <<>> ELSE <<T_description>>),
       <<JNum(loc.lat), JNum(loc.lng), JStr(loc.name)>>
         \o (IF loc.description = <<>> THEN <<>> ELSE <<JStr(loc.description[1])>>))

LocationsToJson(locs) == JArr([i \in 1..Len(locs) |-> LocationToJson(locs[i])])

\* An object written as LocationToJson writes one: lat, lng, name and an
\* optional description, in this order.
IsLocationJson(v) ==
  /\ v.t = "obj"
  /\ \/ v.k = <<T_lat, T_lng, T_name>>
     \/ v.k = <<T_lat, T_lng, T_name, T_description>>
  /\ v.a[1].t = "num" /\ v.a[2].t = "num" /\ v.a[3].t = "str"
  /\ Len(v.k) = 4 => v.a[4].t = "str"

IsLocationsJson(v) ==
  v.t = "arr" /\ \A i \in 1..Len(v.a) : IsLocationJson(v.a[i])

JsonToLocation(v) ==
  [lat |-> v.a[1].n, lng |-> v.a[2].n, name |-> v.a[3].s,
   description |-> IF Len(v.k) = 4 THEN <<v.a[4].s>> ELSE <<>>]

JsonToLocations(v) == [i \in 1..Len(v.a) |-> JsonToLocation(v.a[i])]

(***************************************************************************)
(* String.prototype.trim, parseFloat, URLSearchParams                      *)
(***************************************************************************)
\* White space and line terminators of ECMAScript.
JsWhiteSpace ==
  {9, 10, 11, 12, 13, 32, 160, 5760, 8232, 8233, 8239, 8287, 12288, 65279}
    \cup (8192..8202)

Trim(text) ==
  LET inked == {i \in 1..Len(text) : text[i] \notin JsWhiteSpace} IN
  IF inked = {} THEN <<>>
  ELSE SubSeq(text, CHOOSE i \in inked : \A j \in inked : i <= j,
                    CHOOSE i \in inked : \A j \in inked : i >= j)

\* parseFloat: the longest prefix, after leading white space, of the form
\* [+-] digits [. digits]; [nan |-> TRUE] when there is none.  No enumerated
\* text holds an exponent, "Infinity" or more than four fraction digits.
ParseFloat(text) ==
  LET inked == {i \in 1..Len(text) : text[i] \notin JsWhiteSpace}
      b   == IF inked = {} THEN Len(text) + 1
             ELSE CHOOSE i \in inked : \A j \in inked : i <= j
      sgn == b <= Len(text) /\ text[b] \in {43, 45}
      p   == IF sgn THEN b + 1 ELSE b
      q   == ScanDigits(text, p)
      dot == q <= Len(text) /\ text[q] = 46
      r   == IF dot THEN ScanDigits(text, q + 1) ELSE q
      nf  == IF dot THEN r - (q + 1) ELSE 0
      mag == DigitsValue(text, p, q) * Scale
               + (IF nf > 0 THEN DigitsValue(text, q + 1, r) * Pow10(4 - nf) ELSE 0)
  IN  IF q = p /\ nf = 0 THEN [nan |-> TRUE, n |-> 0]
      ELSE [nan |-> FALSE, n |-> IF sgn /\ text[b] = 45 THEN -mag ELSE mag]

\* URLSearchParams.get: the first value of the key, or null (<<>>).
QueryGet(query, key) ==
  LET at == {i \in 1..Len(query) : query[i].k = key} IN
  IF at = {} THEN <<>> ELSE <<query[CHOOSE i \in at : \A j \in at : i <= j].v>>

\* URLSearchParams.delete: every pair of the key goes.
QueryDelete(query, key) ==
  LET kept(pair) == pair.k # key IN SelectSeq(query, kept)

\* A set that starts from an empty query.
QuerySet_Fresh(query, key, val) == <<[k |-> key, v |-> val]>>

\* URLSearchParams.set: the first pair of the key takes the value and the
\* others go; without one the pair is appended.
QuerySet(query, key, val) ==
  LET at == {i \in 1..Len(query) : query[i].k = key} IN
  IF at = {} THEN Append(query, [k |-> key, v |-> val])
  ELSE LET first == CHOOSE i \in at : \A j \in at : i <= j
           kept(pair) == pair.k # key
       IN  SelectSeq(SubSeq(query, 1, first - 1), kept)
             \o <<[k |-> key, v |-> val]>>
             \o SelectSeq(SubSeq(query, first + 1, Len(query)), kept)

(***************************************************************************)
(* App: mapBounds, the center and zoom handed to MapComponent              *)
(***************************************************************************)
\* Math.min(...xs) and Math.max(...xs) of a sequence that is not empty.
MathMin(xs) ==
  CHOOSE m \in {xs[i] : i \in 1..Len(xs)} : \A i \in 1..Len(xs) : m <= xs[i]

MathMax(xs) ==
  CHOOSE m \in {xs[i] : i \in 1..Len(xs)} : \A i \in 1..Len(xs) : m >= xs[i]

\* A center that is the sum of the two ends, not halved.
CenterOf_NotHalved(xs) == 2 * (MathMin(xs) + MathMax(xs))

\* (min + max) / 2.  A center coordinate counts halves of 1/Scale, so that
\* the half is exact: the center 5 is 2 * 5 * Scale.
CenterOf(xs) == MathMin(xs) + MathMax(xs)

\* Zooms that put the compact layout one level under the regular one.
SpanZoom_OneLower(maxSpan, mobile) ==
  LET regular == IF maxSpan * 100 < Scale THEN 13
                 ELSE IF maxSpan * 10 < Scale THEN 10
                 ELSE IF maxSpan < Scale THEN 7
                 ELSE IF maxSpan < 10 * Scale THEN 5
                 ELSE 3
  IN  IF mobile THEN regular - 1 ELSE regular

\* Thresholds that take a span equal to them into the closer tier.
SpanZoom_Inclusive(maxSpan, mobile) ==
  IF maxSpan * 100 <= Scale THEN (IF mobile THEN 11 ELSE 13)
  ELSE IF maxSpan * 10 <= Scale THEN (IF mobile THEN 8 ELSE 10)
  ELSE IF maxSpan <= Scale THEN (IF mobile THEN 5 ELSE 7)
  ELSE IF maxSpan <= 10 * Scale THEN (IF mobile THEN 3 ELSE 5)
  ELSE (IF mobile THEN 2 ELSE 3)

\* Zooms with the city and the regional level exchanged.
SpanZoom_Exchanged(maxSpan, mobile) ==
  IF maxSpan * 100 < Scale THEN (IF mobile THEN 11 ELSE 13)
  ELSE IF maxSpan * 10 < Scale THEN (IF mobile THEN 5 ELSE 7)
  ELSE IF maxSpan < Scale THEN (IF mobile THEN 8 ELSE 10)
  ELSE IF maxSpan < 10 * Scale THEN (IF mobile THEN 3 ELSE 5)
  ELSE (IF mobile THEN 2 ELSE 3)

\* Zooms with one world level for both layouts.
SpanZoom_OneWorldLevel(maxSpan, mobile) ==
  IF maxSpan * 100 < Scale THEN (IF mobile THEN 11 ELSE 13)
  ELSE IF maxSpan * 10 < Scale THEN (IF mobile THEN 8 ELSE 10)
  ELSE IF maxSpan < Scale THEN (IF mobile THEN 5 ELSE 7)
  ELSE IF maxSpan < 10 * Scale THEN (IF mobile THEN 3 ELSE 5)
  ELSE 3

\* The zoom for a span (in 1/Scale): the thresholds 0.01, 0.1, 1 and 10.
SpanZoom(maxSpan, mobile) ==
  IF maxSpan * 100 < Scale THEN (IF mobile THEN 11 ELSE 13)
  ELSE IF maxSpan * 10 < Scale THEN (IF mobile THEN 8 ELSE 10)
  ELSE IF maxSpan < Scale THEN (IF mobile THEN 5 ELSE 7)
  ELSE IF maxSpan < 10 * Scale THEN (IF mobile THEN 3 ELSE 5)
  ELSE (IF mobile THEN 2 ELSE 3)

\* A computation without the case of the single location.
MapBoundsOf_NoSingle(locs, mobile) ==
  IF Len(locs) = 0
  THEN [center |-> <<2 * 465197, 2 * 66323>>, zoom |-> IF mobile THEN 3 ELSE 4]
  ELSE LET lats == [i \in 1..Len(locs) |-> locs[i].lat]
           lngs == [i \in 1..Len(locs) |-> locs[i].lng]
           latSpan == MathMax(lats) - MathMin(lats)
           lngSpan == MathMax(lngs) - MathMin(lngs)
           maxSpan == IF latSpan >= lngSpan THEN latSpan ELSE lngSpan
       IN  [center |-> <<CenterOf(lats), CenterOf(lngs)>>,
            zoom |-> SpanZoom(maxSpan, mobile)]

\* The useMemo callback for a list and a layout.
MapBoundsOf(locs, mobile) ==
  IF Len(locs) = 0
  THEN [center |-> <<2 * 465197, 2 * 66323>>, zoom |-> IF mobile THEN 3 ELSE 4]
  ELSE IF Len(locs) = 1
  THEN [center |-> <<2 * locs[1].lat, 2 * locs[1].lng>>,
        zoom |-> IF mobile THEN 8 ELSE 10]
  ELSE LET lats == [i \in 1..Len(locs) |-> locs[i].lat]
           lngs == [i \in 1..Len(locs) |-> locs[i].lng]
           latSpan == MathMax(lats) - MathMin(lats)
           lngSpan == MathMax(lngs) - MathMin(lngs)
           maxSpan == IF latSpan >= lngSpan THEN latSpan ELSE lngSpan
       IN  [center |-> <<CenterOf(lats), CenterOf(lngs)>>,
            zoom |-> SpanZoom(maxSpan, mobile)]

\* A memo that follows the list only.
useMemo_ListOnly(memo, deps, locs, mobile) ==
  IF deps[1] = locs THEN memo ELSE MapBoundsOf(locs, mobile)

\* useMemo(callback, [mapLocations, isMobile]) at a render: the value kept
\* from the render before is handed back unless a dependency differs from
\* what it was at that render (`deps`).
useMemo(memo, deps, locs, mobile) ==
  IF deps = <<locs, mobile>> THEN memo ELSE MapBoundsOf(locs, mobile)

\* The render that follows a handler's state updates; the render before it
\* was the one of the state the handler started in.
Render ==
  mapBoundsMemo' = useMemo(mapBoundsMemo, <<mapLocations, isMobile>>, mapLocations', isMobile')

\* What the render hands to MapComponent as center and zoom.
mapBounds == mapBoundsMemo

(***************************************************************************)
(* App: the mount effect that reads the `locations` parameter              *)
(***************************************************************************)
\* What the effect leaves behind for a page query and the constructed list:
\* the list, the alert shown and whether the next render throws.  A decoded
\* value is stored unchecked; a value that is no array of locations makes the
\* render throw (mapLocations.map is not a function), which unmounts the tree
\* and discards its state.
\* A mount effect that empties the list when decoding fails.
MountOutcome_ClearsOnFailure(query, constructed) ==
  LET locationsParam == QueryGet(query, "locations") IN
  IF locationsParam = <<>> \/ locationsParam[1] = <<>>
  THEN [list |-> constructed, alert |-> "none", crashed |-> FALSE]
  ELSE LET decoded == decodeFromUrlSafeBase64(locationsParam[1]) IN
       IF ~decoded.ok
       THEN [list |-> <<>>, alert |-> "Invalid locations data in URL",
             crashed |-> FALSE]
       ELSE IF IsLocationsJson(decoded.v)
       THEN [list |-> JsonToLocations(decoded.v), alert |-> "none", crashed |-> FALSE]
       ELSE [list |-> <<>>, alert |-> "none", crashed |-> TRUE]

MountOutcome(query, constructed) ==
  LET locationsParam == QueryGet(query, "locations") IN
  IF locationsParam = <<>> \/ locationsParam[1] = <<>>
  THEN [list |-> constructed, alert |-> "none", crashed |-> FALSE]
  ELSE LET decoded == decodeFromUrlSafeBase64(locationsParam[1]) IN
       IF ~decoded.ok
       THEN [list |-> constructed, alert |-> "Invalid locations data in URL",
             crashed |-> FALSE]
       ELSE IF IsLocationsJson(decoded.v)
       THEN [list |-> JsonToLocations(decoded.v), alert |-> "none", crashed |-> FALSE]
       ELSE [list |-> <<>>, alert |-> "none", crashed |-> TRUE]

MountEffect ==
  /\ phase = "mounting"
  /\ LET out == MountOutcome(pageQuery, mapLocations) IN
       /\ mapLocations' = out.list
       /\ alertText' = out.alert
       /\ crashed' = out.crashed
  /\ phase' = "ready"
  /\ lastEvent' = "mount"
  /\ UNCHANGED <<pageQuery, newLocation, showAddLocationForm, locationsShareUrl,
                 isMapAddingMode, targetLocation, openPopupLocationIndex, isMobile,
                 pendingLocation, timers, nextTimerId, adds, deletes, codec,
                 clipboard, copying>>
  /\ Render

\* Event handlers run on the mounted tree.
Ready == phase = "ready" /\ ~crashed

(***************************************************************************)
(* App: the add form                                                       *)
(***************************************************************************)
\* A toggle that leaves the add form as it is.
ToggleClickAdd_KeepsForm ==
  /\ Ready /\ ~isMobile
  /\ isMapAddingMode' = ~isMapAddingMode
  /\ alertText' = "none"
  /\ lastEvent' = "toggleClickAdd"
  /\ UNCHANGED <<phase, crashed, pageQuery, mapLocations, newLocation, locationsShareUrl,
                 targetLocation, openPopupLocationIndex, isMobile, pendingLocation,
                 timers, nextTimerId, adds, deletes, codec,
                 clipboard, copying, showAddLocationForm>>
  /\ Render

\* The 'Click Add' button (rendered in the wide layout only).
ToggleClickAdd ==
  /\ Ready /\ ~isMobile
  /\ isMapAddingMode' = ~isMapAddingMode
  /\ showAddLocationForm' = FALSE
  /\ alertText' = "none"
  /\ lastEvent' = "toggleClickAdd"
  /\ UNCHANGED <<phase, crashed, pageQuery, mapLocations, newLocation, locationsShareUrl,
                 targetLocation, openPopupLocationIndex, isMobile, pendingLocation,
                 timers, nextTimerId, adds, deletes, codec,
                 clipboard, copying>>
  /\ Render

\* The 'Add Form' button.
OpenAddForm ==
  /\ Ready /\ ~isMobile
  /\ showAddLocationForm' = TRUE
  /\ isMapAddingMode' = FALSE
  /\ alertText' = "none"
  /\ lastEvent' = "openAddForm"
  /\ UNCHANGED <<phase, crashed, pageQuery, mapLocations, newLocation, locationsShareUrl,
                 targetLocation, openPopupLocationIndex, isMobile, pendingLocation,
                 timers, nextTimerId, adds, deletes, codec,
                 clipboard, copying>>
  /\ Render

\* The form's Cancel button.
CancelAddForm ==
  /\ Ready /\ ~isMobile /\ showAddLocationForm
  /\ showAddLocationForm' = FALSE
  /\ alertText' = "none"
  /\ lastEvent' = "cancelAddForm"
  /\ UNCHANGED <<phase, crashed, pageQuery, mapLocations, newLocation, locationsShareUrl,
                 isMapAddingMode, targetLocation, openPopupLocationIndex, isMobile,
                 pendingLocation, timers, nextTimerId, adds, deletes, codec,
                 clipboard, copying>>
  /\ Render

\* Typing into the field `name` of the form.
handleLocationChange(name, value) ==
  /\ Ready /\ ~isMobile /\ showAddLocationForm
  /\ newLocation' = [newLocation EXCEPT ![name] = value]
  /\ alertText' = "none"
  /\ lastEvent' = "handleLocationChange"
  /\ UNCHANGED <<phase, crashed, pageQuery, mapLocations, showAddLocationForm,
                 locationsShareUrl, isMapAddingMode, targetLocation,
                 openPopupLocationIndex, isMobile, pendingLocation, timers, nextTimerId,
                 adds, deletes, codec,
                 clipboard, copying>>
  /\ Render

\* The two checks of addLocation, in order: the alert each one raises, or
\* "none" when the form passes both.
\* A form check whose upper latitude limit lets 91 through.
FormRejection_WideLatitude(form) ==
  LET lat == ParseFloat(form.lat)
      lng == ParseFloat(form.lng)
  IN  IF lat.nan \/ lng.nan \/ Trim(form.name) = <<>>
      THEN "Please enter valid coordinates and location name"
      ELSE IF lat.n < -90 * Scale \/ lat.n > 91 * Scale
              \/ lng.n < -180 * Scale \/ lng.n > 180 * Scale
      THEN "Please enter valid coordinates (lat: -90 to 90, lng: -180 to 180)"
      ELSE "none"

FormRejection(form) ==
  LET lat == ParseFloat(form.lat)
      lng == ParseFloat(form.lng)
  IN  IF lat.nan \/ lng.nan \/ Trim(form.name) = <<>>
      THEN "Please enter valid coordinates and location name"
      ELSE IF lat.n < -90 * Scale \/ lat.n > 90 * Scale
              \/ lng.n < -180 * Scale \/ lng.n > 180 * Scale
      THEN "Please enter valid coordinates (lat: -90 to 90, lng: -180 to 180)"
      ELSE "none"

\* The MapLocation addLocation builds from the form.
FormLocation(form) ==
  [lat |-> ParseFloat(form.lat).n, lng |-> ParseFloat(form.lng).n,
   name |-> Trim(form.name),
   description |-> IF Trim(form.description) = <<>> THEN <<>>
                   ELSE <<Trim(form.description)>>]

\* A spread that puts the new location in front.
SpreadAppend_InFront(locs, location) == <<location>> \o locs

\* [...mapLocations, location]
SpreadAppend(locs, location) == locs \o <<location>>

\* Submitting the form.
addLocation ==
  /\ Ready /\ ~isMobile /\ showAddLocationForm
  /\ LET rejection == FormRejection(newLocation) IN
       IF rejection # "none"
       THEN /\ alertText' = rejection
            /\ lastEvent' = "addLocation rejected"
            /\ UNCHANGED <<mapLocations, newLocation, showAddLocationForm, adds>>
       ELSE /\ adds < MaxAdds
            /\ mapLocations' = SpreadAppend(mapLocations, FormLocation(newLocation))
            /\ newLocation' = EmptyForm
            /\ showAddLocationForm' = FALSE
            /\ adds' = adds + 1
            /\ alertText' = "none"
            /\ lastEvent' = "addLocation"
  /\ UNCHANGED <<phase, crashed, pageQuery, locationsShareUrl, isMapAddingMode,
                 targetLocation, openPopupLocationIndex, isMobile, pendingLocation,
                 timers, nextTimerId, deletes, codec,
                 clipboard, copying>>
  /\ Render

\* A removal in the manner of splice(index, 1): a negative index counts from
\* the end.
FilterIndex_Splice(locs, index) ==
  LET at == IF index < 0 THEN Len(locs) + index ELSE index
      kept == SelectSeq([i \in 1..Len(locs) |-> <<i - 1, locs[i]>>],
                        LAMBDA e : e[1] # at)
  IN  [j \in 1..Len(kept) |-> kept[j][2]]

\* A filter that counts the elements from 1.
FilterIndex_FromOne(locs, index) ==
  LET kept == SelectSeq([i \in 1..Len(locs) |-> <<i, locs[i]>>],
                        LAMBDA e : e[1] # index)
  IN  [j \in 1..Len(kept) |-> kept[j][2]]

\* mapLocations.filter((_, i) => i !== index)
FilterIndex(locs, index) ==
  LET kept == SelectSeq([i \in 1..Len(locs) |-> <<i - 1, locs[i]>>],
                        LAMBDA e : e[1] # index)
  IN  [j \in 1..Len(kept) |-> kept[j][2]]

\* The delete button of the list item at `index` (counted from 0).
deleteLocation(index) ==
  /\ Ready /\ deletes < MaxDeletes
  /\ mapLocations' = FilterIndex(mapLocations, index)
  /\ deletes' = deletes + 1
  /\ alertText' = "none"
  /\ lastEvent' = "deleteLocation"
  /\ UNCHANGED <<phase, crashed, pageQuery, newLocation, showAddLocationForm,
                 locationsShareUrl, isMapAddingMode, targetLocation,
                 openPopupLocationIndex, isMobile, pendingLocation, timers, nextTimerId,
                 adds, codec,
                 clipboard, copying>>
  /\ Render

(***************************************************************************)
(* MapComponent: adding by a click on the map                              *)
(***************************************************************************)
\* ClickHandler: a click at (lat, lng) reaches handleMapClick in adding mode only.
MapClick(lat, lng) ==
  /\ Ready
  /\ pendingLocation' = IF isMapAddingMode THEN <<[lat |-> lat, lng |-> lng]>>
                        ELSE pendingLocation
  /\ alertText' = "none"
  /\ lastEvent' = "mapClick"
  /\ UNCHANGED <<phase, crashed, pageQuery, mapLocations, newLocation,
                 showAddLocationForm, locationsShareUrl, isMapAddingMode, targetLocation,
                 openPopupLocationIndex, isMobile, timers, nextTimerId, adds, deletes, codec,
                 clipboard, copying>>
  /\ Render

\* App.handleMapAddLocation: the MapLocation it appends.
MapAddedLocation(lat, lng, locationData) ==
  [lat |-> lat, lng |-> lng, name |-> locationData.name,
   description |-> IF locationData.description = <<>> THEN <<>>
                   ELSE <<locationData.description>>]

\* LocationForm.handleSubmit with `name` and `description` typed into the popup
\* form of the pending marker; onSave runs handleMapAddLocation and then clears
\* the pending location.
LocationFormSubmit(name, description) ==
  /\ Ready /\ isMapAddingMode /\ pendingLocation # <<>>
  /\ IF Trim(name) # <<>>
     THEN /\ adds < MaxAdds
          /\ mapLocations' = SpreadAppend(mapLocations,
               MapAddedLocation(pendingLocation[1].lat, pendingLocation[1].lng,
                                [name |-> Trim(name), description |-> Trim(description)]))
          /\ isMapAddingMode' = FALSE
          /\ pendingLocation' = <<>>
          /\ adds' = adds + 1
          /\ lastEvent' = "handleMapAddLocation"
     ELSE /\ lastEvent' = "locationForm ignored"
          /\ UNCHANGED <<mapLocations, isMapAddingMode, pendingLocation, adds>>
  /\ alertText' = "none"
  /\ UNCHANGED <<phase, crashed, pageQuery, newLocation, showAddLocationForm,
                 locationsShareUrl, targetLocation, openPopupLocationIndex, isMobile,
                 timers, nextTimerId, deletes, codec,
                 clipboard, copying>>
  /\ Render

\* The popup form's Cancel button.
LocationFormCancel ==
  /\ Ready /\ isMapAddingMode /\ pendingLocation # <<>>
  /\ pendingLocation' = <<>>
  /\ alertText' = "none"
  /\ lastEvent' = "locationForm cancel"
  /\ UNCHANGED <<phase, crashed, pageQuery, mapLocations, newLocation,
                 showAddLocationForm, locationsShareUrl, isMapAddingMode, targetLocation,
                 openPopupLocationIndex, isMobile, timers, nextTimerId, adds, deletes, codec,
                 clipboard, copying>>
  /\ Render

(***************************************************************************)
(* App: sharing                                                            *)
(***************************************************************************)
\* A share that takes the exposed URL away when the list is empty.
generateLocationsShareUrl_ResetsWhenEmpty ==
  /\ Ready
  /\ IF Len(mapLocations) > 0
     THEN LET urlSafeEncoded == encodeToUrlSafeBase64(LocationsToJson(mapLocations)) IN
          IF urlSafeEncoded.ok
          THEN /\ locationsShareUrl' =
                    <<QuerySet(QueryDelete(pageQuery, "locations"), "locations",
                               urlSafeEncoded.v)>>
               /\ lastEvent' = "generateLocationsShareUrl"
          ELSE /\ lastEvent' = "generateLocationsShareUrl threw"
               /\ UNCHANGED locationsShareUrl
     ELSE /\ lastEvent' = "generateLocationsShareUrl empty"
          /\ locationsShareUrl' = <<>>
  /\ alertText' = "none"
  /\ UNCHANGED <<phase, crashed, pageQuery, mapLocations, newLocation,
                 showAddLocationForm, isMapAddingMode, targetLocation,
                 openPopupLocationIndex, isMobile, pendingLocation, timers, nextTimerId,
                 adds, deletes, codec,
                 clipboard, copying>>
  /\ Render

\* The 'Share' button.  An Error thrown by the encoder leaves the handler
\* before any state is set; React reports it and the tree stays mounted.
generateLocationsShareUrl ==
  /\ Ready
  /\ IF Len(mapLocations) > 0
     THEN LET urlSafeEncoded == encodeToUrlSafeBase64(LocationsToJson(mapLocations)) IN
          IF urlSafeEncoded.ok
          THEN /\ locationsShareUrl' =
                    <<QuerySet(QueryDelete(pageQuery, "locations"), "locations",
                               urlSafeEncoded.v)>>
               /\ lastEvent' = "generateLocationsShareUrl"
          ELSE /\ lastEvent' = "generateLocationsShareUrl threw"
               /\ UNCHANGED locationsShareUrl
     ELSE /\ lastEvent' = "generateLocationsShareUrl empty"
          /\ UNCHANGED locationsShareUrl
  /\ alertText' = "none"
  /\ UNCHANGED <<phase, crashed, pageQuery, mapLocations, newLocation,
                 showAddLocationForm, isMapAddingMode, targetLocation,
                 openPopupLocationIndex, isMobile, pendingLocation, timers, nextTimerId,
                 adds, deletes, codec,
                 clipboard, copying>>
  /\ Render

(***************************************************************************)
(* App: copying the share URL                                              *)
(***************************************************************************)
\* The copy button.  It is rendered inside the share panel only, which shows
\* when locationsShareUrl is set, so `locationsShareUrl || ...` takes the
\* stored URL.  writeText is started and the handler waits for its promise.
copyLocationsShareUrl ==
  /\ Ready /\ locationsShareUrl # <<>>
  /\ Len(copying) < MaxCopying
  /\ LET url == locationsShareUrl[1] IN copying' = Append(copying, url)
  /\ alertText' = "none"
  /\ lastEvent' = "copyLocationsShareUrl"
  /\ UNCHANGED <<phase, crashed, pageQuery, mapLocations, newLocation,
                 showAddLocationForm, locationsShareUrl, isMapAddingMode, targetLocation,
                 openPopupLocationIndex, isMobile, pendingLocation, timers, nextTimerId,
                 adds, deletes, codec, clipboard>>
  /\ Render

\* The awaited writes without the i-th.
Settled(pending, i) ==
  [j \in 1..(Len(pending) - 1) |-> IF j < i THEN pending[j] ELSE pending[j + 1]]

\* The promise of the i-th awaited write resolves: the clipboard holds the URL
\* and the handler goes on to the alert (its first line is kept here).
ClipboardWritten(i) ==
  /\ phase = "ready" /\ i \in 1..Len(copying)
  /\ clipboard' = <<copying[i]>>
  /\ copying' = Settled(copying, i)
  /\ alertText' = "Locations share URL copied to clipboard!"
  /\ lastEvent' = "clipboardWritten"
  /\ UNCHANGED <<phase, crashed, pageQuery, mapLocations, newLocation,
                 showAddLocationForm, locationsShareUrl, isMapAddingMode, targetLocation,
                 openPopupLocationIndex, isMobile, pendingLocation, timers, nextTimerId,
                 adds, deletes, codec>>
  /\ Render

\* A catch block that starts the write again.
CatchCopyError_Retries(pending, i) == Append(Settled(pending, i), pending[i])

\* The awaited writes after the catch block ran for the i-th: it logs and
\* alerts, and starts nothing.
CatchCopyError(pending, i) == Settled(pending, i)

\* The promise of the i-th awaited write rejects.
ClipboardFailed(i) ==
  /\ phase = "ready" /\ i \in 1..Len(copying)
  /\ copying' = CatchCopyError(copying, i)
  /\ alertText' = "Failed to copy URL to clipboard"
  /\ lastEvent' = "clipboardFailed"
  /\ UNCHANGED <<phase, crashed, pageQuery, mapLocations, newLocation,
                 showAddLocationForm, locationsShareUrl, isMapAddingMode, targetLocation,
                 openPopupLocationIndex, isMobile, pendingLocation, timers, nextTimerId,
                 adds, deletes, codec, clipboard>>
  /\ Render

(***************************************************************************)
(* App: focusing a location                                                *)
(***************************************************************************)
\* A click on the list item at `index`: the focus is set and a timeout of 5000 ms
\* is started; nothing keeps or cancels the timeouts started before.
handleLocationClick(index) ==
  /\ Ready /\ index \in 0..(Len(mapLocations) - 1)
  /\ nextTimerId <= MaxFocus
  /\ targetLocation' = <<[lat |-> mapLocations[index + 1].lat,
                          lng |-> mapLocations[index + 1].lng]>>
  /\ openPopupLocationIndex' = <<index>>
  /\ timers' = Append(timers, nextTimerId)
  /\ nextTimerId' = nextTimerId + 1
  /\ alertText' = "none"
  /\ lastEvent' = "handleLocationClick"
  /\ UNCHANGED <<phase, crashed, pageQuery, mapLocations, newLocation,
                 showAddLocationForm, locationsShareUrl, isMapAddingMode, isMobile,
                 pendingLocation, adds, deletes, codec,
                 clipboard, copying>>
  /\ Render

\* The oldest timeout fires (equal delays fire in the order they were started).
FocusTimeout ==
  /\ phase = "ready" /\ timers # <<>>
  /\ timers' = Tail(timers)
  /\ targetLocation' = <<>>
  /\ openPopupLocationIndex' = <<>>
  /\ alertText' = "none"
  /\ lastEvent' = "focusTimeout"
  /\ UNCHANGED <<phase, crashed, pageQuery, mapLocations, newLocation,
                 showAddLocationForm, locationsShareUrl, isMapAddingMode, isMobile,
                 pendingLocation, nextTimerId, adds, deletes, codec,
                 clipboard, copying>>
  /\ Render

\* The resize listener.
handleResize(narrow) ==
  /\ Ready
  /\ isMobile' = narrow
  /\ alertText' = "none"
  /\ lastEvent' = "handleResize"
  /\ UNCHANGED <<phase, crashed, pageQuery, mapLocations, newLocation,
                 showAddLocationForm, locationsShareUrl, isMapAddingMode, targetLocation,
                 openPopupLocationIndex, pendingLocation, timers, nextTimerId, adds, deletes, codec,
                 clipboard, copying>>
  /\ Render

(***************************************************************************)
(* Inputs                                                                  *)
(***************************************************************************)
\* The state App is constructed in, for a page query and a window width.
Constructed(query, narrow) ==
  /\ phase = "mounting"
  /\ crashed = FALSE
  /\ pageQuery = query
  /\ mapLocations = DefaultLocations
  /\ newLocation = EmptyForm
  /\ showAddLocationForm = FALSE
  /\ locationsShareUrl = <<>>
  /\ isMapAddingMode = FALSE
  /\ targetLocation = <<>>
  /\ openPopupLocationIndex = <<>>
  /\ isMobile = narrow
  /\ pendingLocation = <<>>
  /\ timers = <<>>
  /\ nextTimerId = 1
  /\ alertText = "none"
  /\ lastEvent = "constructed"
  /\ adds = 0
  /\ deletes = 0
  /\ mapBoundsMemo = MapBoundsOf(DefaultLocations, narrow)
  /\ clipboard = <<>>
  /\ copying = <<>>

CodecIdle ==
  [stage |-> "idle", value |-> JNull, external |-> <<>>, token |-> Thrown,
   standard |-> Thrown, decoded |-> Thrown, valid |-> FALSE, validStandard |-> FALSE,
   safe |-> JNull, restored |-> <<>>]

\* Two valid locations, the second without a description.
TwoLocations == <<
    [lat |-> 407128, lng |-> -740060, name |-> <<78, 101, 119, 32, 89, 111, 114, 107>>, description |-> <<<<67, 101, 110, 116, 114, 97, 108, 32, 80, 97, 114, 107>>>>],
    [lat |-> -900000, lng |-> 1800000, name |-> <<88>>, description |-> <<>>]
  >>

\* A list no add form accepts: latitude 91 and an empty name.
OutOfRangeLocations == <<
    [lat |-> 910000, lng |-> 0, name |-> <<>>, description |-> <<>>]
  >>

TokenOf(v) == encodeToUrlSafeBase64(v).v

\* Values of the `locations` parameter that do not decode.
BadTokens == {
    <<100, 71, 86, 122, 100, 65>>,                                        \* base64 of the text test: no JSON
    <<110, 111, 116, 45, 118, 97, 108, 105, 100, 45, 98, 97, 115, 101, 54, 52, 33>>,                                          \* characters outside the alphabet
    SubSeq(TokenOf(LocationsToJson(TwoLocations)), 1, 40) \* a share token cut short
  }

\* Values of the `locations` parameter that decode.
GoodTokens == {
    TokenOf(LocationsToJson(TwoLocations)),
    TokenOf(LocationsToJson(OutOfRangeLocations)),
    TokenOf(LocationsToJson(<<>>)),
    TokenOf(JStr(<<116, 101, 115, 116>>))                            \* a JSON string, no array
  }

\* Page queries: none, an empty `locations`, and `locations` with each token.
PageQueries ==
  {<<>>, <<[k |-> "locations", v |-> <<>>]>>}
    \cup {<<[k |-> "locations", v |-> t]>> : t \in BadTokens \cup GoodTokens}

\* Text typed into the add form.
LatTexts == {<<>>, <<45, 57, 49>>, <<45, 57, 48>>, <<57, 48>>, <<57, 49>>}

LngTexts == {<<>>, <<45, 49, 56, 49>>, <<45, 49, 56, 48>>, <<49, 56, 48>>, <<49, 56, 49>>}

NameTexts == {<<32>>, <<32, 88, 32>>}

DescriptionTexts == {<<>>, <<32, 100, 32>>}

\* Where a click can land: Leaflet reports the longitude of the world copy
\* that was clicked, so it leaves [-180, 180] when the map is panned across
\* the antimeridian; the latitude stays inside (-90, 90).
ClickPoints == {<<105000, 1799999>>, <<-338688, 1900000>>}

\* Text typed into the popup form of the pending marker.
PopupNames == {<<32>>, <<32, 88, 32>>}

PopupDescriptions == {<<32, 100, 32>>}

(***************************************************************************)
(* Specifications                                                          *)
(***************************************************************************)
DeleteSome == \E index \in 0..(Len(mapLocations) - 1) : deleteLocation(index)

ClickMap == \E pt \in ClickPoints : MapClick(pt[1], pt[2])

SubmitPopupForm ==
  \E name \in PopupNames, description \in PopupDescriptions :
    LocationFormSubmit(name, description)

\* Spec: the location list from page load on, for every page query: the mount
\* effect, both ways of adding, and deleting.
Init ==
  /\ \E query \in PageQueries, narrow \in BOOLEAN : Constructed(query, narrow)
  /\ codec = CodecIdle

TypeIntoForm ==
  \/ handleLocationChange("lat", <<57, 48>>)
  \/ handleLocationChange("lng", <<45, 49, 56, 48>>)
  \/ handleLocationChange("name", <<32, 88, 32>>)

Next ==
  \/ MountEffect
  \/ ToggleClickAdd
  \/ OpenAddForm
  \/ CancelAddForm
  \/ TypeIntoForm
  \/ addLocation
  \/ DeleteSome
  \/ ClickMap
  \/ SubmitPopupForm
  \/ LocationFormCancel

Spec == Init /\ [][Next]_vars

\* SpecForm: the add form alone, with every text of LatTexts, LngTexts,
\* NameTexts and DescriptionTexts typed into it.
InitForm ==
  /\ Constructed(<<>>, FALSE)
  /\ codec = CodecIdle

TypeAnyIntoForm ==
  \/ \E t \in LatTexts : handleLocationChange("lat", t)
  \/ \E t \in LngTexts : handleLocationChange("lng", t)
  \/ \E t \in NameTexts : handleLocationChange("name", t)
  \/ \E t \in DescriptionTexts : handleLocationChange("description", t)

NextForm ==
  \/ MountEffect
  \/ OpenAddForm
  \/ CancelAddForm
  \/ TypeAnyIntoForm
  \/ addLocation

SpecForm == InitForm /\ [][NextForm]_vars

\* SpecStore: the list under form adds and deleteLocation called with any
\* index, the two just outside the list included.  The page is opened plainly
\* or from a share link of TwoLocations.
InitStore ==
  /\ \E query \in {<<>>, <<[k |-> "locations", v |-> TokenOf(LocationsToJson(TwoLocations))]>>} :
       Constructed(query, FALSE)
  /\ codec = CodecIdle

DeleteAny == \E index \in -1..Len(mapLocations) : deleteLocation(index)

NextStore ==
  \/ MountEffect
  \/ OpenAddForm
  \/ TypeIntoForm
  \/ addLocation
  \/ DeleteAny

SpecStore == InitStore /\ [][NextStore]_vars

\* SpecShare: sharing.  The page is opened plainly or from a share link of
\* TwoLocations; locations are added with the form, deleted and shared.
InitShare ==
  /\ \E query \in {<<>>, <<[k |-> "locations", v |-> TokenOf(LocationsToJson(TwoLocations))]>>} :
       Constructed(query, FALSE)
  /\ codec = CodecIdle

TypeTokyoIntoForm ==
  \/ handleLocationChange("lat", <<51, 53, 46, 54, 55, 54, 50>>)
  \/ handleLocationChange("lng", <<49, 51, 57, 46, 54, 53, 48, 51>>)
  \/ \E t \in {<<84, 111, 107, 121, 111>>, <<26481, 20140>>} : handleLocationChange("name", t)

NextShare ==
  \/ MountEffect
  \/ OpenAddForm
  \/ TypeTokyoIntoForm
  \/ addLocation
  \/ DeleteSome
  \/ generateLocationsShareUrl

SpecShare == InitShare /\ [][NextShare]_vars

\* SpecShareUrl: the share URL for page URLs that hold other parameters, an
\* inbound `locations` (good, bad, twice, or of the empty list) or neither.
ShareQueries ==
  LET utm == [k |-> "utm_source", v |-> <<120>>]
      ref == [k |-> "ref", v |-> <<97>>]
      inbound == [k |-> "locations", v |-> TokenOf(LocationsToJson(TwoLocations))]
      broken == [k |-> "locations", v |-> <<110, 111, 116, 45, 118, 97, 108, 105, 100, 45, 98, 97, 115, 101, 54, 52, 33>>]
      none == [k |-> "locations", v |-> TokenOf(LocationsToJson(<<>>))]
  IN  {<<>>, <<utm>>, <<inbound>>, <<none>>, <<ref, inbound, utm>>,
       <<broken, utm, inbound>>}

InitShareUrl ==
  /\ \E query \in ShareQueries : Constructed(query, FALSE)
  /\ codec = CodecIdle

NextShareUrl ==
  \/ MountEffect
  \/ DeleteSome
  \/ generateLocationsShareUrl

SpecShareUrl == InitShareUrl /\ [][NextShareUrl]_vars

\* SpecFitter: mapBounds for lists of up to MaxPoints points, in both layouts.
\* The points sit at and just under the spans 0.01, 0.1, 1 and 10 from the
\* origin; the page is opened from the share link of the list.
FitPoints ==
  {<<0, 0>>, <<0, 99>>, <<0, 100>>, <<999, 0>>, <<1000, 0>>, <<0, 9999>>,
   <<10000, 0>>, <<99999, 0>>, <<0, 100000>>, <<-338688, 1512093>>}

FitLocations ==
  {[lat |-> pt[1], lng |-> pt[2], name |-> <<80>>, description |-> <<>>] : pt \in FitPoints}

FitLists == UNION {[1..n -> FitLocations] : n \in 0..MaxPoints}

InitFitter ==
  /\ \E locs \in FitLists, narrow \in BOOLEAN :
       Constructed(<<[k |-> "locations", v |-> TokenOf(LocationsToJson(locs))]>>, narrow)
  /\ codec = CodecIdle

Resize == \E narrow \in BOOLEAN : handleResize(narrow)

NextFitter ==
  \/ MountEffect
  \/ Resize
  \/ DeleteSome

SpecFitter == InitFitter /\ [][NextFitter]_vars

\* SpecViewport: mapBounds from page load on, under form adds, map-click adds,
\* deletes and resizes.  The page is opened plainly or from a share link of
\* TwoLocations, in either layout.
InitViewport ==
  /\ \E query \in {<<>>, <<[k |-> "locations", v |-> TokenOf(LocationsToJson(TwoLocations))]>>},
        narrow \in BOOLEAN :
       Constructed(query, narrow)
  /\ codec = CodecIdle

NextViewport ==
  \/ MountEffect
  \/ Resize
  \/ ToggleClickAdd
  \/ ClickMap
  \/ SubmitPopupForm
  \/ OpenAddForm
  \/ TypeIntoForm
  \/ addLocation
  \/ DeleteSome

SpecViewport == InitViewport /\ [][NextViewport]_vars

\* SpecFocus: focusing list items while their timeouts run, and deleting.
InitFocus ==
  /\ Constructed(<<>>, FALSE)
  /\ codec = CodecIdle

FocusSome == \E index \in 0..(Len(mapLocations) - 1) : handleLocationClick(index)

NextFocus ==
  \/ MountEffect
  \/ FocusSome
  \/ FocusTimeout
  \/ DeleteSome

SpecFocus == InitFocus /\ [][NextFocus]_vars

\* A timeout that was started does fire: the event loop runs every callback
\* whose delay has passed.
SpecFocusFair == SpecFocus /\ WF_vars(FocusTimeout)

\* SpecCopy: copying the share URL.  The page is opened from a share link of
\* TwoLocations; locations are focused, deleted and shared, the share URL is
\* copied, and each clipboard write succeeds or fails.
InitCopy ==
  /\ Constructed(<<[k |-> "locations", v |-> TokenOf(LocationsToJson(TwoLocations))]>>, FALSE)
  /\ codec = CodecIdle

NextCopy ==
  \/ MountEffect
  \/ FocusSome
  \/ FocusTimeout
  \/ DeleteSome
  \/ generateLocationsShareUrl
  \/ copyLocationsShareUrl
  \/ \E i \in 1..Len(copying) : ClipboardWritten(i)
  \/ \E i \in 1..Len(copying) : ClipboardFailed(i)

SpecCopy == InitCopy /\ [][NextCopy]_vars

\* SpecCodec: utils/base64 on its own.  A value is encoded both ways, the
\* token is decoded and validated; tokens from outside are decoded.
\* Code units of the texts: a, the quote and the backslash (escaped by
\* JSON.stringify), '>' and '?' and y-diaeresis (their bits make '+' and '/'),
\* and a CJK ideograph (above 255).
CodecUnits == {97, 34, 92, 62, 63, 255, 26481}

RECURSIVE TextsUpTo(_)
TextsUpTo(n) ==
  IF n = 0 THEN {<<>>}
  ELSE LET shorter == TextsUpTo(n - 1) IN
       shorter \cup {Append(t, c) : t \in {x \in shorter : Len(x) = n - 1}, c \in CodecUnits}

CodecValues ==
  {JStr(t) : t \in TextsUpTo(MaxTextLen)}
    \cup {JStr(<<116, 101, 115, 116>>), JStr(<<97, 62, 255>>), JNull, JBool(TRUE), JNum(-5), JNum(363932),
          JObj(<<<<113, 117, 101, 114, 121>>>>, <<JArr(<<JNum(50000), JStr(<<98, 101, 97, 99, 104>>)>>)>>),
          LocationsToJson(<<>>), LocationsToJson(DefaultLocations),
          LocationsToJson(TwoLocations), LocationsToJson(OutOfRangeLocations)}

ExternalTokens ==
  {<<100, 71, 86, 122, 100, 65>>, <<73, 110, 82, 108, 99, 51, 81, 105>>, <<110, 111, 116, 45, 118, 97, 108, 105, 100, 45, 98, 97, 115, 101, 54, 52, 33>>, <<100, 71, 86, 122, 100, 65, 61, 61>>, TokenOf(LocationsToJson(TwoLocations))}

InitCodec ==
  /\ Constructed(<<>>, FALSE)
  /\ \E v \in CodecValues : codec = [CodecIdle EXCEPT !.value = v]

CodecEncode ==
  /\ codec.stage = "idle"
  /\ codec' = [codec EXCEPT !.stage = "encoded",
                            !.token = encodeToUrlSafeBase64(codec.value),
                            !.standard = encodeToBase64(codec.value)]
  /\ UNCHANGED appVars

CodecDecode ==
  /\ codec.stage = "encoded" /\ codec.token.ok
  /\ codec' = [codec EXCEPT !.stage = "decoded",
                            !.restored = RestoredBase64(codec.token.v),
                            !.decoded = decodeFromUrlSafeBase64(codec.token.v)]
  /\ UNCHANGED appVars

CodecValidate ==
  /\ codec.stage = "encoded" /\ codec.token.ok
  /\ codec' = [codec EXCEPT !.stage = "validated",
                            !.valid = isValidBase64(codec.token.v),
                            !.validStandard = isValidBase64(codec.standard.v)]
  /\ UNCHANGED appVars

CodecDecodeExternal(t) ==
  /\ codec.stage = "idle"
  /\ codec' = [codec EXCEPT !.stage = "external", !.external = t,
                            !.restored = RestoredBase64(t),
                            !.decoded = decodeFromUrlSafeBase64(t)]
  /\ UNCHANGED appVars

\* The safe encoder and the throwing one on the same value.
CodecSafeEncode ==
  /\ codec.stage = "idle"
  /\ codec' = [codec EXCEPT !.stage = "safeEncoded",
                            !.standard = encodeToBase64(codec.value),
                            !.safe = safeEncodeToBase64(codec.value)]
  /\ UNCHANGED appVars

\* The safe decoder and the throwing one on the token of the safe encoder.
CodecSafeDecode ==
  /\ codec.stage = "safeEncoded" /\ codec.safe # JNull
  /\ codec' = [codec EXCEPT !.stage = "safeDecoded",
                            !.external = codec.safe.s,
                            !.decoded = decodeFromBase64(codec.safe.s),
                            !.safe = safeDecodeFromBase64(codec.safe.s)]
  /\ UNCHANGED appVars

\* The safe decoder and the throwing one on a string from outside.
CodecSafeDecodeExternal(t) ==
  /\ codec.stage = "idle"
  /\ codec' = [codec EXCEPT !.stage = "safeExternal", !.external = t,
                            !.decoded = decodeFromBase64(t),
                            !.safe = safeDecodeFromBase64(t)]
  /\ UNCHANGED appVars

NextCodec ==
  \/ CodecEncode
  \/ CodecDecode
  \/ CodecValidate
  \/ \E t \in ExternalTokens : CodecDecodeExternal(t)
  \/ CodecSafeEncode
  \/ CodecSafeDecode
  \/ \E t \in ExternalTokens : CodecSafeDecodeExternal(t)

SpecCodec == InitCodec /\ [][NextCodec]_vars

(***************************************************************************)
(* Properties of the codec (SpecCodec)                                     *)
(***************************************************************************)
Encoded == codec.stage \in {"encoded", "decoded", "validated"}

\* C1: round trip: every value handed to encodeToUrlSafeBase64 gets a token,
\* and decodeFromUrlSafeBase64 of that token returns a value equal to it.
C1_RoundTrip ==
  /\ Encoded => codec.token.ok
  /\ codec.stage = "decoded" => (codec.decoded.ok /\ codec.decoded.v = codec.value)

\* [A-Za-z0-9_-]
UrlSafeUnit(c) ==
  \/ c >= 65 /\ c <= 90
  \/ c >= 97 /\ c <= 122
  \/ c >= 48 /\ c <= 57
  \/ c = 45
  \/ c = 95

\* C4: token safety: every character of a token encodeToUrlSafeBase64 returns
\* is in [A-Za-z0-9_-]; no token holds '+', '/' or '='.
C4_TokenSafety ==
  (Encoded /\ codec.token.ok) =>
    \A i \in 1..Len(codec.token.v) : UrlSafeUnit(codec.token.v[i])

\* A value was encoded whose standard base64 holds '+', '/' and '='.
C4_Witness ==
  /\ Encoded /\ codec.token.ok
  /\ \A c \in {43, 47, 61} : \E i \in 1..Len(codec.standard.v) : codec.standard.v[i] = c

C2_NewerFocusStays ==
  (phase = "ready" /\ timers # <<>>) =>
    (targetLocation # <<>> /\ openPopupLocationIndex # <<>>)

\* The bounds of the data model.
ValidLocation(loc) ==
  /\ loc.lat >= -90 * Scale /\ loc.lat <= 90 * Scale
  /\ loc.lng >= -180 * Scale /\ loc.lng <= 180 * Scale
  /\ loc.name # <<>>

\* C3: store invariant (Spec): in every reachable state every record of
\* mapLocations has its latitude in [-90, 90], its longitude in [-180, 180]
\* and a name that is not empty.
C3_StoreInvariant ==
  \A i \in 1..Len(mapLocations) : ValidLocation(mapLocations[i])

\* The `locations` parameter is there, is not empty, and does not decode.
BadPayload(query) ==
  LET locationsParam == QueryGet(query, "locations") IN
  /\ locationsParam # <<>>
  /\ locationsParam[1] # <<>>
  /\ ~decodeFromUrlSafeBase64(locationsParam[1]).ok

C8_ShareThenLoad ==
  (/\ lastEvent \in {"generateLocationsShareUrl", "generateLocationsShareUrl threw"}
   /\ Len(mapLocations) > 0
   /\ \A i \in 1..Len(mapLocations) : ValidLocation(mapLocations[i])) =>
    /\ lastEvent = "generateLocationsShareUrl"
    /\ locationsShareUrl # <<>>
    /\ MountOutcome(locationsShareUrl[1], DefaultLocations) =
         [list |-> mapLocations, alert |-> "none", crashed |-> FALSE]

\* Share then load for the lists whose text is Latin-1 throughout.
ShareThenLoadLatin1 ==
  (/\ lastEvent \in {"generateLocationsShareUrl", "generateLocationsShareUrl threw"}
   /\ Len(mapLocations) > 0
   /\ \A i \in 1..Len(mapLocations) :
        \A j \in 1..Len(mapLocations[i].name) : mapLocations[i].name[j] <= 255) =>
    /\ lastEvent = "generateLocationsShareUrl"
    /\ MountOutcome(locationsShareUrl[1], DefaultLocations) =
         [list |-> mapLocations, alert |-> "none", crashed |-> FALSE]

\* What the data model calls an invalid form: a coordinate that is no number
\* or is out of range, or a name that is empty once trimmed.
InvalidForm(form) ==
  \/ ParseFloat(form.lat).nan
  \/ ParseFloat(form.lng).nan
  \/ Trim(form.name) = <<>>
  \/ ParseFloat(form.lat).n < -90 * Scale
  \/ ParseFloat(form.lat).n > 90 * Scale
  \/ ParseFloat(form.lng).n < -180 * Scale
  \/ ParseFloat(form.lng).n > 180 * Scale

\* C9: the add form (SpecForm): a submit of an invalid form raises an alert
\* and leaves mapLocations as it was; a submit of a valid form, the limits
\* -90, 90, -180 and 180 included, appends its record.
C9_FormAddValidation ==
  [][addLocation =>
       IF InvalidForm(newLocation)
       THEN mapLocations' = mapLocations /\ alertText' # "none"
       ELSE /\ mapLocations' = mapLocations \o <<FormLocation(newLocation)>>
            /\ ValidLocation(FormLocation(newLocation))]_vars

\* Latitude 90 and longitude -180 were accepted, and then a form with
\* latitude 91 was refused with the list left as it was.
C9_Witness ==
  /\ lastEvent = "addLocation rejected"
  /\ newLocation.lat = <<57, 49>>
  /\ ~ParseFloat(newLocation.lng).nan /\ Trim(newLocation.name) # <<>>
  /\ alertText = "Please enter valid coordinates (lat: -90 to 90, lng: -180 to 180)"
  /\ Len(mapLocations) = Len(DefaultLocations) + 1
  /\ mapLocations[Len(mapLocations)].lat = 90 * Scale
  /\ mapLocations[Len(mapLocations)].lng = -180 * Scale

\* C10: adding by a map click (Spec): a record out of the bounds is refused
\* with a validation message and never stored; a valid one goes to the end.
C10_MapAddValidation ==
  /\ lastEvent = "handleMapAddLocation" =>
       ValidLocation(mapLocations[Len(mapLocations)])
  /\ lastEvent = "locationForm ignored" => alertText # "none"

\* C11: a successful add appends (SpecForm): when addLocation accepts the
\* form, the list grows by exactly one, every record that was there keeps its
\* index and value, and the record built from the form is the last element.
C11_AddAppends ==
  [][(lastEvent' = "addLocation" /\ addLocation) =>
       /\ Len(mapLocations') = Len(mapLocations) + 1
       /\ \A i \in 1..Len(mapLocations) : mapLocations'[i] = mapLocations[i]
       /\ mapLocations'[Len(mapLocations')] = FormLocation(newLocation)]_vars

\* A form add was accepted: the seed list is followed by the record X.
C11_Witness ==
  /\ lastEvent = "addLocation"
  /\ Len(mapLocations) = Len(DefaultLocations) + 1
  /\ SubSeq(mapLocations, 1, Len(DefaultLocations)) = DefaultLocations
  /\ mapLocations[Len(mapLocations)].name = <<88>>

\* The list without the element at `index` (counted from 0), the others in
\* their order.
RemovedAt(locs, index) ==
  [j \in 1..(Len(locs) - 1) |-> IF j <= index THEN locs[j] ELSE locs[j + 1]]

\* C12: delete(index) (SpecStore): for an index in range the new list is the
\* old one without the element at that index, the others in their order; for
\* an index out of range (negative or >= length) the list is unchanged; no
\* error is raised either way.
C12_DeleteRemovesOne ==
  [][\A index \in -1..Len(mapLocations) :
       (lastEvent' = "deleteLocation" /\ deleteLocation(index)) =>
         /\ mapLocations' = IF index \in 0..(Len(mapLocations) - 1)
                            THEN RemovedAt(mapLocations, index)
                            ELSE mapLocations
         /\ ~crashed' /\ alertText' = "none"]_vars

\* On the seed list, one delete in range and one out of range have run.
C12_Witness ==
  /\ lastEvent = "deleteLocation" /\ pageQuery = <<>>
  /\ deletes = 2 /\ adds = 0
  /\ Len(mapLocations) = Len(DefaultLocations) - 1

\* C13: add/delete consistency (SpecStore): after an accepted add of r,
\* deleting at the index of r (the last one) gives back the list as it was
\* before the add, same records in the same order.
C13_AddThenDelete ==
  [][/\ (lastEvent' = "addLocation" /\ addLocation) =>
          FilterIndex(mapLocations', Len(mapLocations') - 1) = mapLocations
     /\ (lastEvent = "addLocation" /\ lastEvent' = "deleteLocation"
           /\ deleteLocation(Len(mapLocations) - 1)) =>
          mapLocations' = SubSeq(mapLocations, 1, Len(mapLocations) - 1)]_vars

\* On the seed list a record was added and then deleted at its index: the
\* list is the seed list again.
C13_Witness ==
  /\ lastEvent = "deleteLocation" /\ pageQuery = <<>>
  /\ adds = 1 /\ deletes = 1
  /\ mapLocations = DefaultLocations

\* C14: the share action (SpecShareUrl): on an empty list it returns '' and
\* changes no state, the share URL exposed before included; on a list that is
\* not empty the `locations` value of the URL it exposes is the token
\* encodeToUrlSafeBase64 gives for the list as it is at the call.
C14_ShareAction ==
  [][(/\ lastEvent' \in {"generateLocationsShareUrl", "generateLocationsShareUrl empty"}
      /\ generateLocationsShareUrl) =>
       IF mapLocations = <<>>
       THEN /\ lastEvent' = "generateLocationsShareUrl empty"
            /\ UNCHANGED <<phase, crashed, pageQuery, mapLocations, newLocation,
                           showAddLocationForm, locationsShareUrl, isMapAddingMode,
                           targetLocation, openPopupLocationIndex, isMobile,
                           pendingLocation, timers, nextTimerId>>
       ELSE /\ lastEvent' = "generateLocationsShareUrl"
            /\ locationsShareUrl' # <<>>
            /\ QueryGet(locationsShareUrl'[1], "locations") =
                 <<TokenOf(LocationsToJson(mapLocations))>>
            /\ mapLocations' = mapLocations]_vars

\* A list was shared, emptied, and shared again: the URL of the first share
\* is still exposed.
C14_Witness ==
  /\ lastEvent = "generateLocationsShareUrl empty"
  /\ mapLocations = <<>>
  /\ locationsShareUrl # <<>>

\* C15: the share URL's parameters (SpecShareUrl): after a share of a list that
\* is not empty the exposed URL holds exactly one `locations` parameter,
\* whatever `locations` the page URL held, and every other parameter of the
\* page URL, in its order.
C15_OneLocationsParameter ==
  lastEvent = "generateLocationsShareUrl" =>
    /\ locationsShareUrl # <<>>
    /\ Cardinality({i \in 1..Len(locationsShareUrl[1]) :
                      locationsShareUrl[1][i].k = "locations"}) = 1
    /\ QueryDelete(locationsShareUrl[1], "locations") = QueryDelete(pageQuery, "locations")

\* The page URL held `locations` twice and another parameter; after a delete
\* the list was shared, and the URL exposes another value than the inbound one.
C15_Witness ==
  /\ lastEvent = "generateLocationsShareUrl"
  /\ Len(pageQuery) = 3 /\ pageQuery[1].k = "locations" /\ pageQuery[3].k = "locations"
  /\ deletes > 0
  /\ QueryGet(locationsShareUrl[1], "locations") # QueryGet(pageQuery, "locations")

(***************************************************************************)
(* Properties of mapBounds (SpecFitter)                                    *)
(***************************************************************************)
\* The indexes of the mounted list.
Points == 1..Len(mapLocations)

\* C16: center bounds: for a list of valid records that is not empty, in
\* either layout, the center latitude lies within [min(lat), max(lat)] and the
\* center longitude within [min(lng), max(lng)]; for two or more points the
\* center is (min + max) / 2 on each axis.
C16_CenterWithinBounds ==
  (/\ mapLocations # <<>>
   /\ \A i \in Points : ValidLocation(mapLocations[i])) =>
     /\ \E i, j \in Points :
          /\ 2 * mapLocations[i].lat <= mapBounds.center[1]
          /\ mapBounds.center[1] <= 2 * mapLocations[j].lat
     /\ \E i, j \in Points :
          /\ 2 * mapLocations[i].lng <= mapBounds.center[2]
          /\ mapBounds.center[2] <= 2 * mapLocations[j].lng
     /\ Len(mapLocations) >= 2 =>
          /\ \E i, j \in Points :
               /\ \A n \in Points : /\ mapLocations[i].lat <= mapLocations[n].lat
                                    /\ mapLocations[n].lat <= mapLocations[j].lat
               /\ mapBounds.center[1] = mapLocations[i].lat + mapLocations[j].lat
          /\ \E i, j \in Points :
               /\ \A n \in Points : /\ mapLocations[i].lng <= mapLocations[n].lng
                                    /\ mapLocations[n].lng <= mapLocations[j].lng
               /\ mapBounds.center[2] = mapLocations[i].lng + mapLocations[j].lng

\* The points (0.0999, 0) and (0, 0.0099) are mounted: the center is
\* (0.04995, 0.00495), between the two on both axes.
C16_Witness ==
  /\ phase = "ready" /\ Len(mapLocations) = 2
  /\ mapLocations[1].lat = 999 /\ mapLocations[2].lng = 99
  /\ mapBounds.center = <<999, 99>>

\* The zooms mapBounds hands out.
Zooms == {2, 3, 4, 5, 7, 8, 10, 11, 13}

\* C17: zoom range: for every list (empty, single or larger) and either
\* layout the zoom is a positive integer and one of the fixed values of Zooms.
C17_ZoomInEnumeration ==
  /\ mapBounds.zoom \in Zooms
  /\ mapBounds.zoom \in Nat /\ mapBounds.zoom > 0

\* Two points 0.0001 apart in the compact layout: the zoom is 11.
C17_Witness ==
  /\ phase = "ready" /\ isMobile /\ Len(mapLocations) = 2
  /\ mapLocations[1].lng = 99 /\ mapLocations[2].lng = 100
  /\ mapBounds.zoom = 11

\* C18: degenerate cases: for the empty list the result is the fallback center
\* (46.5197, 6.6323) with zoom 4, or 3 in the compact layout, whatever the
\* list held before; for a single location the center is that location and
\* the zoom is 10, or 8 in the compact layout.
C18_DegenerateCases ==
  /\ mapLocations = <<>> =>
       mapBounds = [center |-> <<2 * 465197, 2 * 66323>>,
                    zoom |-> IF isMobile THEN 3 ELSE 4]
  /\ Len(mapLocations) = 1 =>
       mapBounds = [center |-> <<2 * mapLocations[1].lat, 2 * mapLocations[1].lng>>,
                    zoom |-> IF isMobile THEN 8 ELSE 10]

\* A list of two was mounted and both locations were deleted.
C18_Witness ==
  /\ phase = "ready" /\ mapLocations = <<>> /\ deletes = 2
  /\ mapBounds.zoom = 4

\* max(maxLat - minLat, maxLng - minLng) of the mounted list.
Span ==
  LET gaps == {mapLocations[i].lat - mapLocations[j].lat : i, j \in Points}
                \cup {mapLocations[i].lng - mapLocations[j].lng : i, j \in Points}
  IN  CHOOSE g \in gaps : \A h \in gaps : h <= g

\* C19: tiers for two or more points: span < 0.01 gives the very close zoom
\* (13, compact 11), else span < 0.1 the city zoom (10, 8), else span < 1 the
\* regional zoom (7, 5), else span < 10 the country zoom (5, 3), else the
\* continental zoom (3, 2); a span equal to a threshold is in the wider tier;
\* the points (0, 0) and (0, 10) give the continental zoom and center (0, 5).
C19_TierThresholds ==
  Len(mapLocations) >= 2 =>
    /\ 100 * Span < Scale => mapBounds.zoom = (IF isMobile THEN 11 ELSE 13)
    /\ (100 * Span >= Scale /\ 10 * Span < Scale) =>
         mapBounds.zoom = (IF isMobile THEN 8 ELSE 10)
    /\ (10 * Span >= Scale /\ Span < Scale) =>
         mapBounds.zoom = (IF isMobile THEN 5 ELSE 7)
    /\ (Span >= Scale /\ Span < 10 * Scale) =>
         mapBounds.zoom = (IF isMobile THEN 3 ELSE 5)
    /\ Span >= 10 * Scale => mapBounds.zoom = (IF isMobile THEN 2 ELSE 3)
    /\ (/\ Len(mapLocations) = 2
        /\ mapLocations[1].lat = 0 /\ mapLocations[1].lng = 0
        /\ mapLocations[2].lat = 0 /\ mapLocations[2].lng = 10 * Scale) =>
         /\ Span = 10 * Scale
         /\ mapBounds.center = <<0, 2 * 5 * Scale>>
         /\ mapBounds.zoom = (IF isMobile THEN 2 ELSE 3)

\* The points (0, 0) and (0, 10) are mounted in the regular layout.
C19_Witness ==
  /\ phase = "ready" /\ ~isMobile /\ Len(mapLocations) = 2
  /\ mapLocations[1].lat = 0 /\ mapLocations[1].lng = 0
  /\ mapLocations[2].lat = 0 /\ mapLocations[2].lng = 10 * Scale
  /\ mapBounds.zoom = 3

\* Span and zoom, compact and regular, of every list of two of FitLocations.
PairZooms ==
  {<<MathMax(<<l[1].lat - l[2].lat, l[2].lat - l[1].lat,
               l[1].lng - l[2].lng, l[2].lng - l[1].lng>>),
     MapBoundsOf(l, TRUE).zoom, MapBoundsOf(l, FALSE).zoom>> :
     l \in [1..2 -> FitLocations]}

\* C20: monotonic tiering: in one layout, for two lists of two or more points,
\* the list with the larger (or equal) span never gets the larger zoom.
C20_MonotonicTiering ==
  Len(mapLocations) >= 2 =>
    \A other \in PairZooms :
      LET zoom == IF isMobile THEN other[2] ELSE other[3] IN
      /\ other[1] <= Span => mapBounds.zoom <= zoom
      /\ Span <= other[1] => zoom <= mapBounds.zoom

\* The points (0.1, 0) and (1, 0) are mounted: span 0.9, regional zoom 7,
\* with closer and wider pairs to compare it with.
C20_Witness ==
  /\ phase = "ready" /\ ~isMobile /\ Len(mapLocations) = 2
  /\ mapLocations[1].lat = 1000 /\ mapLocations[2].lat = 10000
  /\ mapBounds.zoom = 7
  /\ \E a, b \in PairZooms : a[3] > 7 /\ b[3] < 7

(***************************************************************************)
(* Properties of the viewport, the focus, the clipboard and the entry modes *)
(***************************************************************************)
\* C21: viewport freshness (SpecViewport): in every state the center and zoom
\* handed to the map are mapBounds' computation applied to the list and the
\* layout of that state, never a value kept from an earlier list or layout.
C21_ViewportFresh == mapBounds = MapBoundsOf(mapLocations, isMobile)

\* Of the two shared locations one was deleted: the box shrank to the one
\* left, and the center handed to the map is that location.
C21_Witness ==
  /\ lastEvent = "deleteLocation" /\ pageQuery # <<>>
  /\ Len(mapLocations) = 1
  /\ mapBounds.center = <<2 * mapLocations[1].lat, 2 * mapLocations[1].lng>>
  /\ mapBounds.zoom = (IF isMobile THEN 8 ELSE 10)

\* C22: focus expiry (SpecFocusFair): a focus that no later request replaces
\* is cleared in the end, and the step that clears it is the timeout that the
\* latest request started (identifier nextTimerId - 1), not an earlier one.
C22_FocusExpiry ==
  /\ (targetLocation # <<>>) ~> (targetLocation = <<>> /\ openPopupLocationIndex = <<>>)
  /\ [][(targetLocation # <<>> /\ targetLocation' = <<>>) =>
          (timers # <<>> /\ Head(timers) = nextTimerId - 1)]_vars

\* C23, as stated (SpecCodec): each safe variant returns null exactly when the
\* throwing operation fails on the same input, and otherwise what it returns.
C23_NullExactlyOnFailure ==
  /\ codec.stage = "safeEncoded" =>
       /\ (codec.safe = JNull) <=> ~codec.standard.ok
       /\ codec.standard.ok => codec.safe = JStr(codec.standard.v)
  /\ codec.stage \in {"safeDecoded", "safeExternal"} =>
       /\ (codec.safe = JNull) <=> ~codec.decoded.ok
       /\ codec.decoded.ok => codec.safe = codec.decoded.v

\* C23, amended (SpecCodec): each safe variant returns null when the throwing
\* operation fails and otherwise what that operation returns; for the encoder
\* null means failure, for the decoder null means failure or a decoded null.
C23_SafeVariants ==
  /\ codec.stage = "safeEncoded" =>
       /\ (codec.safe = JNull) <=> ~codec.standard.ok
       /\ codec.standard.ok => codec.safe = JStr(codec.standard.v)
  /\ codec.stage \in {"safeDecoded", "safeExternal"} =>
       /\ ~codec.decoded.ok => codec.safe = JNull
       /\ codec.decoded.ok => codec.safe = codec.decoded.v
       /\ (codec.safe = JNull) => (~codec.decoded.ok \/ codec.decoded.v = JNull)

\* Both safe variants answered null for a failure: an ideograph was encoded,
\* or not-valid-base64! was decoded.
C23_Witness ==
  \/ /\ codec.stage = "safeEncoded" /\ codec.value = JStr(<<26481>>)
     /\ ~codec.standard.ok /\ codec.safe = JNull
  \/ /\ codec.stage = "safeExternal"
     /\ codec.external = <<110, 111, 116, 45, 118, 97, 108, 105, 100, 45, 98, 97, 115, 101, 54, 52, 33>>
     /\ ~codec.decoded.ok /\ codec.safe = JNull

\* The token that was decoded, if one was.
DecodedToken ==
  IF codec.stage = "decoded" THEN codec.token.v ELSE codec.external

\* C24: padding restoration (SpecCodec): the string that is base64-decoded is
\* the token with every '-' turned to '+' and every '_' to '/', followed by
\* (4 - len % 4) % 4 characters '=': none when len is a multiple of 4.
C24_PaddingRestored ==
  codec.stage \in {"decoded", "external"} =>
    LET len == Len(DecodedToken)
        pad == (4 - (len % 4)) % 4
    IN  /\ Len(codec.restored) = len + pad
        /\ \A i \in 1..len :
             codec.restored[i] = (IF DecodedToken[i] = 45 THEN 43
                                  ELSE IF DecodedToken[i] = 95 THEN 47
                                  ELSE DecodedToken[i])
        /\ \A i \in (len + 1)..(len + pad) : codec.restored[i] = 61

\* not-valid-base64! (17 characters, two '-') was decoded: three '=' were
\* added and no '-' was left.
C24_Witness ==
  /\ codec.stage = "external" /\ Len(codec.external) % 4 = 1
  /\ \E i \in 1..Len(codec.external) : codec.external[i] = 45
  /\ Len(codec.restored) = Len(codec.external) + 3
  /\ \A i \in 1..Len(codec.restored) : codec.restored[i] # 45

\* C25: clipboard failure (SpecCopy): when the awaited clipboard write fails,
\* the handler reports 'Failed to copy URL to clipboard' and starts no other
\* write; the clipboard, the list, the share URL and the focus are as before,
\* and the page stays mounted and ready for events.
C25_ClipboardFailure ==
  [][lastEvent' = "clipboardFailed" =>
       /\ alertText' = "Failed to copy URL to clipboard"
       /\ Len(copying') = Len(copying) - 1
       /\ \A url \in {copying'[j] : j \in 1..Len(copying')} :
            \E j \in 1..Len(copying) : copying[j] = url
       /\ clipboard' = clipboard
       /\ mapLocations' = mapLocations
       /\ locationsShareUrl' = locationsShareUrl
       /\ targetLocation' = targetLocation
       /\ openPopupLocationIndex' = openPopupLocationIndex
       /\ phase' = "ready" /\ ~crashed']_vars

\* The only write that was started failed while a location was focused:
\* nothing is on the clipboard, nothing is awaited, the share URL and the
\* focus are set.
C25_Witness ==
  /\ lastEvent = "clipboardFailed" /\ alertText = "Failed to copy URL to clipboard"
  /\ clipboard = <<>> /\ copying = <<>>
  /\ locationsShareUrl # <<>> /\ targetLocation # <<>> /\ Ready

\* C26: copied URL is current (SpecCopy): the URL that the copy action hands
\* to the clipboard carries a `locations` token that decodes to the list of
\* the moment of the copy.
C26_CopiedUrlIsCurrent ==
  lastEvent = "copyLocationsShareUrl" =>
    LET url   == copying[Len(copying)]
        token == QueryGet(url, "locations")
    IN  /\ token # <<>>
        /\ decodeFromUrlSafeBase64(token[1]) = Returned(LocationsToJson(mapLocations))

\* C27: focus/index consistency (SpecFocus): whenever the open-popup index is
\* set it is an index of the list, and the record at that index has the
\* coordinates held in the target location.
C27_FocusIndexConsistent ==
  openPopupLocationIndex # <<>> =>
    LET index == openPopupLocationIndex[1] IN
    /\ index \in 0..(Len(mapLocations) - 1)
    /\ targetLocation = <<[lat |-> mapLocations[index + 1].lat,
                           lng |-> mapLocations[index + 1].lng]>>

\* C28: density ordering (SpecFitter): when the layout changes and the list
\* does not, the center handed to the map stays and the zoom is strictly
\* lower in the compact layout than in the regular one, for the empty list,
\* a single location and longer lists alike.
C28_DensityOrdering ==
  [][(isMobile' # isMobile /\ mapLocations' = mapLocations) =>
       /\ mapBounds'.center = mapBounds.center
       /\ isMobile' => mapBounds'.zoom < mapBounds.zoom
       /\ ~isMobile' => mapBounds'.zoom > mapBounds.zoom]_vars

\* The window was narrowed over two locations more than 10 degrees apart:
\* the zoom is 2, and it is 3 in the regular layout.
C28_Witness ==
  /\ lastEvent = "handleResize" /\ isMobile
  /\ Len(mapLocations) = 2
  /\ mapBounds.zoom = 2 /\ MapBoundsOf(mapLocations, FALSE).zoom = 3

\* The pending marker is on the map.
PendingMarkerShown == pendingLocation # <<>> /\ isMapAddingMode

\* C29: map-click gating (Spec): a map click changes the pending location
\* only in adding mode and never the list; the map path changes the list only
\* by a save with a name that is not blank, which ends adding mode and clears
\* the pending location; and when adding mode is switched on no pending
\* marker shows before a map click.
C29_MapClickGating ==
  [][/\ lastEvent' = "mapClick" =>
          /\ mapLocations' = mapLocations
          /\ ~isMapAddingMode => pendingLocation' = pendingLocation
     /\ lastEvent' \in {"handleMapAddLocation", "locationForm ignored", "locationForm cancel"} =>
          IF mapLocations' # mapLocations
          THEN /\ lastEvent' = "handleMapAddLocation"
               /\ mapLocations'[Len(mapLocations')].name # <<>>
               /\ Trim(mapLocations'[Len(mapLocations')].name) = mapLocations'[Len(mapLocations')].name
               /\ ~isMapAddingMode' /\ pendingLocation' = <<>>
          ELSE lastEvent' # "handleMapAddLocation"
     /\ (~isMapAddingMode /\ isMapAddingMode') => ~PendingMarkerShown']_vars

\* C30: entry modes are mutually exclusive (Spec): in every state, whatever
\* the toggles, form openings, submits, cancels and map-click adds before it,
\* the add form is not shown while map adding mode is active.
C30_EntryModesExclusive == ~(showAddLocationForm /\ isMapAddingMode)

\* The add form was open and typed into when 'Click Add' was pressed: adding
\* mode is on and the form is closed.
C30_Witness ==
  /\ lastEvent = "toggleClickAdd" /\ isMapAddingMode /\ ~showAddLocationForm
  /\ newLocation # EmptyForm

====
